---- MODULE Spec2Model ----
(***************************************************************************)
(* Model of the preprocessing pipeline (Bronze -> Silver):                 *)
(*   src/src/preprocess_data/feature_engineering_cli.py  (run_preprocess)  *)
(*   src/src/preprocess_data/preprocessing_functions/steps.py (the steps)  *)
(*   src/src/preprocess_data/preprocessing_functions/config.py (config)    *)
(*                                                                         *)
(* A DataFrame is a record [cols, rows]: cols is the sequence of column    *)
(* names, rows the sequence of rows, each row a sequence of cells aligned  *)
(* with cols.  A cell is a tuple that begins with its type:                *)
(*   Num(h)  a float, h counting halves (the whole value v is Num(2*v)),   *)
(*           so that the median of an even number of whole values, the     *)
(*           mean of the two middle ones, is a cell;   NaN  a missing one; *)
(*   IntCell(n)  an integer n;                                                 *)
(*   Cat(s)  a category label;   NA  a missing one;                        *)
(*   and the cells the scaler and the polynomial expansion make, below.    *)
(***************************************************************************)
EXTENDS Integers, Sequences, FiniteSets, TLC

VARIABLES
    pc,       \* position of run_preprocess
    cfg,      \* the PreprocessConfig of the run
    disk,     \* durable storage: the Bronze file, the Silver file, the artefacts
    disk0,    \* history: the disk as the run found it
    df,       \* local df of run_preprocess
    X,        \* local X
    y,        \* local y
    scaler,   \* local scaler
    poly,     \* local poly
    params,   \* the parsed params file read by feature_engineering
    err,      \* the exception that left feature_engineering, or NoErr
    log,      \* history: the stages begun so far, in order
    call      \* a direct call of one step function: its arguments and outcome

vars == <<pc, cfg, disk, disk0, df, X, y, scaler, poly, params, err, log, call>>

----------------------------------------------------------------------------
(* Bounds *)

MaxRows == 2
MaxDegree == 2
MaxCols == 3
MaxCallRows == 3

----------------------------------------------------------------------------
(* Values *)

Num(h) == <<"num", h>>
NaN == <<"nan">>
IntCell(n) == <<"int", n>>
Cat(s) == <<"cat", s>>
NA == <<"na">>
Payload(cell) == cell[2]
None == [none |-> TRUE]
EmptyFrame == [cols |-> <<>>, rows |-> <<>>]

NUMERIC_COLS ==
    <<"person_age", "person_income", "person_emp_length", "loan_amnt",
      "loan_int_rate", "loan_percent_income", "cb_person_cred_hist_length">>

CATEGORICAL_COLS ==
    <<"person_home_ownership", "loan_intent", "loan_grade",
      "cb_person_default_on_file">>

Range(s) == {s[i] : i \in DOMAIN s}

Indices(s) == [i \in 1..Len(s) |-> i]

RECURSIVE Flatten(_)
Flatten(ss) == IF ss = <<>> THEN <<>> ELSE Head(ss) \o Flatten(Tail(ss))

\* c in df.columns
HasCol(d, c) == \E i \in DOMAIN d.cols : d.cols[i] = c

ColIndex(d, c) == CHOOSE i \in DOMAIN d.cols :
                     /\ d.cols[i] = c
                     /\ \A j \in DOMAIN d.cols : d.cols[j] = c => i <= j

\* df[c] : the cells of column c, by row
Column(d, c) == [r \in 1..Len(d.rows) |-> d.rows[r][ColIndex(d, c)]]

\* df[c][r] : the cell of column c in row r
Cell(d, c, r) == d.rows[r][ColIndex(d, c)]

\* df.drop(columns=names)
DropColumns(d, names) ==
    LET Keep(i) == d.cols[i] \notin names
        idx == SelectSeq(Indices(d.cols), Keep)
    IN [cols |-> [k \in 1..Len(idx) |-> d.cols[idx[k]]],
        rows |-> [r \in 1..Len(d.rows) |->
                    [k \in 1..Len(idx) |-> d.rows[r][idx[k]]]]]

\* df[c] = cells : assignment of a whole column (appended when c is new)
SetColumn(d, c, cells) ==
    IF HasCol(d, c)
    THEN [d EXCEPT !.rows = [r \in 1..Len(d.rows) |->
                               [d.rows[r] EXCEPT ![ColIndex(d, c)] = cells[r]]]]
    ELSE [cols |-> Append(d.cols, c),
          rows |-> [r \in 1..Len(d.rows) |-> Append(d.rows[r], cells[r])]]

\* pd.concat([a, b], axis=1) of two frames on the same index
ConcatColumns(a, b) ==
    [cols |-> a.cols \o b.cols,
     rows |-> [r \in 1..Len(a.rows) |-> a.rows[r] \o b.rows[r]]]

----------------------------------------------------------------------------
(* Exceptions *)

NoErr == [type |-> "none", origin |-> "none", args |-> <<>>]

Raise(type, origin, args) == [type |-> type, origin |-> origin, args |-> args]

Ok(v) == [raised |-> NoErr, value |-> v]

Fail(e) == [raised |-> e, value |-> None]

----------------------------------------------------------------------------
(* steps.py *)

\* validate_columns that stops at the first missing column
validate_columns_FirstOnly(d, numeric_cols, categorical_cols) ==
    LET NumMissing(c) == ~HasCol(d, c)
        missing == SelectSeq(numeric_cols \o categorical_cols, NumMissing)
    IN IF missing # <<>>
       THEN Raise("KeyError", "validate_columns",
                  IF Head(missing) \in Range(numeric_cols)
                  THEN << <<Head(missing)>>, <<>> >>
                  ELSE << <<>>, <<Head(missing)>> >>)
       ELSE NoErr

\* validate_columns: the exception it raises, NoErr when it returns
validate_columns(d, numeric_cols, categorical_cols) ==
    LET NumMissing(c) == ~HasCol(d, c)
        missing_numeric == SelectSeq(numeric_cols, NumMissing)
        missing_cats == SelectSeq(categorical_cols, NumMissing)
    IN IF missing_numeric # <<>> \/ missing_cats # <<>>
       THEN Raise("KeyError", "validate_columns", <<missing_numeric, missing_cats>>)
       ELSE NoErr

\* read_bronze on the Bronze file as the disk holds it
read_bronze(file) ==
    IF file.state = "absent"
    THEN Fail(Raise("FileNotFoundError", "read_bronze", <<>>))
    ELSE IF file.state = "corrupt"
    THEN Fail(Raise("ArrowInvalid", "read_bronze", <<>>))
    ELSE Ok(file.table)

\* Series.astype(int) on one cell: truncation of a non-negative value
AsInt(cell) == IntCell(Payload(cell) \div 2)

\* split_target: <<X, y>>
split_target(d, target_col) ==
    IF ~HasCol(d, target_col)
    THEN Fail(Raise("KeyError", "split_target", <<target_col>>))
    ELSE IF \E r \in 1..Len(d.rows) : Cell(d, target_col, r) \in {NaN, NA}
    THEN Fail(Raise("ValueError", "split_target", <<target_col>>))
    ELSE Ok(<<DropColumns(d, {target_col}),
              [r \in 1..Len(d.rows) |-> AsInt(Cell(d, target_col, r))]>>)

IsNaN(cell) == cell = NaN

NotNaN(cell) == cell # NaN

\* the payloads of the cells that are not missing
Values(cells) ==
    LET present == SelectSeq(cells, NotNaN)
    IN [i \in 1..Len(present) |-> Payload(present[i])]

\* the least element of a non-empty sequence of numbers, by position
MinPos(s) == CHOOSE i \in DOMAIN s :
                \A j \in DOMAIN s : s[i] < s[j] \/ (s[i] = s[j] /\ i <= j)

RemoveAt(s, i) == SubSeq(s, 1, i - 1) \o SubSeq(s, i + 1, Len(s))

RECURSIVE Sorted(_)
Sorted(s) == IF s = <<>> THEN <<>>
             ELSE <<s[MinPos(s)]>> \o Sorted(RemoveAt(s, MinPos(s)))

\* Series.median(): the median of the non-missing cells, NaN when there is none
Median(cells) ==
    LET vals == Sorted(Values(cells))
        n == Len(vals)
    IN IF n = 0 THEN NaN
       ELSE IF n % 2 = 1 THEN Num(vals[(n + 1) \div 2])
       ELSE Num((vals[n \div 2] + vals[n \div 2 + 1]) \div 2)

\* Series.fillna(value)
FillNa(cells, value) ==
    [r \in 1..Len(cells) |-> IF IsNaN(cells[r]) THEN value ELSE cells[r]]

\* one turn of the loop of impute_numerics
ImputeColumn(d, col) ==
    IF \E r \in 1..Len(d.rows) : IsNaN(Cell(d, col, r))
    THEN SetColumn(d, col, FillNa(Column(d, col), Median(Column(d, col))))
    ELSE d

RECURSIVE ImputeLoop(_, _)
ImputeLoop(d, cols) ==
    IF cols = <<>> THEN d ELSE ImputeLoop(ImputeColumn(d, Head(cols)), Tail(cols))

\* impute_numerics
impute_numerics(d, numeric_cols) ==
    IF \E i \in DOMAIN numeric_cols : ~HasCol(d, numeric_cols[i])
    THEN Fail(Raise("KeyError", "impute_numerics", <<>>))
    ELSE Ok(ImputeLoop(d, numeric_cols))

\* Python's order of the category labels: sorted() of the labels in use
CategoryOrder ==
    <<"A", "B", "C", "EDUCATION", "MEDICAL", "MORTGAGE", "N", "OWN", "RENT", "Y">>

\* the categories of a column as pandas factorizes them: the distinct
\* non-missing labels, sorted
Levels(cells) ==
    LET Observed(v) == \E r \in DOMAIN cells : cells[r] = Cat(v)
    IN SelectSeq(CategoryOrder, Observed)

\* drop_first=False
DropFirst_KeepsAll(levels) == levels

\* drop_first=True
DropFirst(levels) == IF levels = <<>> THEN <<>> ELSE Tail(levels)

\* the indicator columns get_dummies makes of one source column
Dummies(d, col) ==
    LET kept == DropFirst(Levels(Column(d, col)))
    IN [cols |-> [k \in 1..Len(kept) |-> col \o "_" \o kept[k]],
        rows |-> [r \in 1..Len(d.rows) |->
                    [k \in 1..Len(kept) |->
                       IF Cell(d, col, r) = Cat(kept[k])
                       THEN IntCell(1) ELSE IntCell(0)]]]

RECURSIVE DummiesLoop(_, _, _)
DummiesLoop(d, cols, acc) ==
    IF cols = <<>> THEN acc
    ELSE DummiesLoop(d, Tail(cols), ConcatColumns(acc, Dummies(d, Head(cols))))

\* one_hot_encode: pd.get_dummies(df, columns=categorical_cols, drop_first=True, dtype=int)
one_hot_encode(d, categorical_cols) ==
    IF \E i \in DOMAIN categorical_cols : ~HasCol(d, categorical_cols[i])
    THEN Fail(Raise("KeyError", "one_hot_encode", <<>>))
    ELSE Ok(DummiesLoop(d, categorical_cols, DropColumns(d, Range(categorical_cols))))

\* make_scaler: an unfitted scaler of the kind asked for
make_scaler(kind) ==
    IF kind = "standard" THEN Ok([kind |-> "standard", fitted |-> FALSE, stats |-> <<>>])
    ELSE IF kind = "minmax" THEN Ok([kind |-> "minmax", fitted |-> FALSE, stats |-> <<>>])
    ELSE Fail(Raise("ValueError", "make_scaler", <<"scaler_type">>))

RECURSIVE Sum(_)
Sum(s) == IF s = <<>> THEN 0 ELSE Head(s) + Sum(Tail(s))

\* what a scaler learns of one column on fit (missing cells are left out):
\* StandardScaler the count, sum and sum of squares (mean_ and var_),
\* MinMaxScaler data_min_ and data_max_
FitColumn(kind, cells) ==
    LET vals == Sorted(Values(cells))
    IN IF kind = "standard"
       THEN <<Len(vals), Sum(vals), Sum([i \in DOMAIN vals |-> vals[i] * vals[i]])>>
       ELSE IF vals = <<>> THEN <<NaN, NaN>>
       ELSE <<Num(vals[1]), Num(vals[Len(vals)])>>

\* scale_numerics: fit_transform of the numeric slice, then the cast to
\* float32.  A scaled cell <<"f32", kind, x, stats>> holds the cell x it came
\* from and the statistics it was transformed by; a missing cell stays missing.
scale_numerics(d, numeric_cols, sc) ==
    IF \E i \in DOMAIN numeric_cols : ~HasCol(d, numeric_cols[i])
    THEN Fail(Raise("KeyError", "scale_numerics", <<>>))
    ELSE IF Len(d.rows) = 0 \/ Len(numeric_cols) = 0
    THEN Fail(Raise("ValueError", "scale_numerics", <<"X">>))
    ELSE LET stats == [i \in DOMAIN numeric_cols |->
                         FitColumn(sc.kind, Column(d, numeric_cols[i]))]
             Scaled(i) == [r \in 1..Len(d.rows) |->
                             <<"f32", sc.kind,
                               Cell(d, numeric_cols[i], r), stats[i]>>]
             RECURSIVE Assign(_, _)
             Assign(t, i) == IF i > Len(numeric_cols) THEN t
                             ELSE Assign(SetColumn(t, numeric_cols[i], Scaled(i)), i + 1)
         IN Ok(<<Assign(d, 1), [sc EXCEPT !.fitted = TRUE, !.stats = stats]>>)

\* itertools.combinations_with_replacement(range(lo, d + 1), k), in its order:
\* the non-decreasing index sequences of length k
RECURSIVE CombinationsWithReplacement(_, _, _)
CombinationsWithReplacement(lo, d, k) ==
    IF k = 0 THEN << <<>> >>
    ELSE Flatten([j \in 1..(d - lo + 1) |->
            LET i == lo + j - 1
                rest == CombinationsWithReplacement(i, d, k - 1)
            IN [m \in 1..Len(rest) |-> <<i>> \o rest[m]]])

\* the combinations with include_bias=True: the degrees 0..degree
Combinations_WithBias(d, degree) ==
    Flatten([k \in 1..(degree + 1) |-> CombinationsWithReplacement(1, d, k - 1)])

\* PolynomialFeatures._combinations with include_bias=False: the degrees 1..degree
Combinations(d, degree) ==
    Flatten([k \in 1..degree |-> CombinationsWithReplacement(1, d, k)])

Digits == <<"1", "2", "3", "4", "5", "6", "7", "8", "9">>

\* the exponent of input i in a monomial
Exponent(combo, i) == Cardinality({m \in DOMAIN combo : combo[m] = i})

\* get_feature_names_out of one monomial: "a", "a^2", "a b"
RECURSIVE FeatureName(_, _, _)
FeatureName(combo, input_features, i) ==
    IF i > Len(input_features) THEN ""
    ELSE LET e == Exponent(combo, i)
             term == IF e = 0 THEN ""
                     ELSE IF e = 1 THEN input_features[i]
                     ELSE input_features[i] \o "^" \o Digits[e]
             rest == FeatureName(combo, input_features, i + 1)
         IN IF term = "" THEN rest
            ELSE IF rest = "" THEN term
            ELSE term \o " " \o rest

IsNaNScaled(cell) == cell[3] = NaN

\* the expanded frame on a fitted basis: one column per monomial, a cell being
\* the product of its factors, held as <<"prod", the factors>>
Expand(d, numeric_cols, degree) ==
    LET combos == Combinations(Len(numeric_cols), degree)
        names == [m \in 1..Len(combos) |-> FeatureName(combos[m], numeric_cols, 1)]
        poly_df == [cols |-> names,
                    rows |-> [r \in 1..Len(d.rows) |->
                                [m \in 1..Len(combos) |->
                                   <<"prod",
                                     [f \in 1..Len(combos[m]) |->
                                        Cell(d, numeric_cols[combos[m][f]], r)]>>]]]
    IN <<ConcatColumns(DropColumns(d, Range(numeric_cols)), poly_df),
         [degree |-> degree, n_features_in |-> Len(numeric_cols),
          feature_names_out |-> names]>>

\* poly_expand.  PolynomialFeatures(degree, include_bias=False).fit_transform
\* rejects, in this order: a negative degree; an input with no row, no column
\* or a missing cell; degree 0, which without the bias column would leave no
\* output column.
poly_expand(d, numeric_cols, degree) ==
    IF \E i \in DOMAIN numeric_cols : ~HasCol(d, numeric_cols[i])
    THEN Fail(Raise("KeyError", "poly_expand", <<>>))
    ELSE IF degree < 0
    THEN Fail(Raise("ValueError", "poly_expand", <<"degree">>))
    ELSE IF \/ Len(d.rows) = 0
            \/ Len(numeric_cols) = 0
            \/ \E r \in 1..Len(d.rows), i \in DOMAIN numeric_cols :
                  IsNaNScaled(Cell(d, numeric_cols[i], r))
    THEN Fail(Raise("ValueError", "poly_expand", <<"X">>))
    ELSE IF degree = 0
    THEN Fail(Raise("ValueError", "poly_expand", <<"degree">>))
    ELSE Ok(Expand(d, numeric_cols, degree))

\* write_silver: the outcomes it can have on the disk, each <<exception, disk>>.
\* Creating the parent directory can fail and leave nothing; the Parquet
\* write can fail and leave no file or a part of one.
write_silver(d, dk) ==
    LET made == [dk EXCEPT !.out_dir = TRUE]
    IN << <<NoErr, [made EXCEPT !.silver = [state |-> "written", table |-> d]]>>,
          <<Raise("OSError", "write_silver", <<"to_parquet">>), made>>,
          <<Raise("OSError", "write_silver", <<"to_parquet">>),
            [made EXCEPT !.silver = [state |-> "partial", table |-> EmptyFrame]]>> >>
       \o (IF dk.out_dir THEN <<>>
           ELSE << <<Raise("OSError", "write_silver", <<"mkdir">>), dk>> >>)

----------------------------------------------------------------------------
(* config.py *)

DefaultScaler == "standard"
DefaultTargetCol == "loan_status"
DefaultPolyDegree == 2

\* dict.get(key, default) on an optional entry: <<>> when the key is absent
Get(entry, default) == IF entry = <<>> THEN default ELSE entry[1]

NoCfg == [loaded |-> FALSE, input |-> "", output |-> "", scaler |-> "",
          target_col |-> "", poly_degree |-> 0, save_artifacts_dir |-> <<>>]

\* PreprocessConfig.from_params on the parsed params file
from_params(p) ==
    IF ~p.preprocess
    THEN Fail(Raise("KeyError", "from_params", <<"preprocess">>))
    ELSE IF p.input = <<>> \/ p.output = <<>>
    THEN Fail(Raise("KeyError", "from_params",
                    (IF p.input = <<>> THEN <<"input">> ELSE <<>>)
                    \o (IF p.output = <<>> THEN <<"output">> ELSE <<>>)))
    ELSE Ok([loaded |-> TRUE,
             input |-> p.input[1],
             output |-> p.output[1],
             scaler |-> Get(p.scaler, DefaultScaler),
             target_col |-> Get(p.target_col, DefaultTargetCol),
             poly_degree |-> Get(p.poly_degree, DefaultPolyDegree),
             save_artifacts_dir |->
                IF Get(p.save_artifacts_dir, "") # ""
                THEN p.save_artifacts_dir ELSE <<>>])

----------------------------------------------------------------------------
(* The inputs of a run: the params file and the Bronze file *)

BronzeCols ==
    <<"person_age", "person_income", "person_home_ownership",
      "person_emp_length", "loan_intent", "loan_grade", "loan_amnt",
      "loan_int_rate", "loan_status", "loan_percent_income",
      "cb_person_default_on_file", "cb_person_cred_hist_length">>

\* three applicants: one complete, one with no employment length, one with
\* no loan status
BronzeRows ==
    {<<Num(44), Num(10), Cat("RENT"), Num(2), Cat("EDUCATION"), Cat("B"),
       Num(6), Num(8), Num(0), Num(2), Cat("N"), Num(4)>>,
     <<Num(60), Num(20), Cat("MORTGAGE"), NaN, Cat("MEDICAL"), Cat("A"),
       Num(8), Num(12), Num(2), Num(4), Cat("Y"), Num(6)>>,
     <<Num(50), Num(30), Cat("OWN"), Num(8), Cat("MEDICAL"), Cat("C"),
       Num(4), NaN, NaN, Num(6), Cat("N"), Num(8)>>}

\* the columns a Bronze file may lack
DropChoices == {{}, {"loan_grade"}, {"loan_status"}}

BronzeTables ==
    {DropColumns([cols |-> BronzeCols, rows |-> rows], drop) :
        rows \in UNION {[1..n -> BronzeRows] : n \in 0..MaxRows},
        drop \in DropChoices}

BronzeFiles ==
    {[state |-> "absent", table |-> EmptyFrame],
     [state |-> "corrupt", table |-> EmptyFrame]}
    \cup {[state |-> "file", table |-> t] : t \in BronzeTables}

PolyDegrees == {-1, 0} \cup 1..MaxDegree

WellFormedParams ==
    [preprocess : {TRUE},
     input : {<<"bronze.parquet">>},
     output : {<<"silver/silver.parquet">>},
     scaler : {<<>>, <<"minmax">>, <<"robust">>},
     target_col : {<<>>},
     poly_degree : {<<>>} \cup {<<n>> : n \in PolyDegrees},
     save_artifacts_dir : {<<>>, <<"artifacts">>}]

DefaultParams ==
    [preprocess |-> TRUE, input |-> <<"bronze.parquet">>,
     output |-> <<"silver/silver.parquet">>, scaler |-> <<>>,
     target_col |-> <<>>, poly_degree |-> <<>>, save_artifacts_dir |-> <<>>]

ParamsFiles ==
    WellFormedParams
    \cup {[DefaultParams EXCEPT !.preprocess = FALSE],
          [DefaultParams EXCEPT !.input = <<>>],
          [DefaultParams EXCEPT !.save_artifacts_dir = <<"">>],
          [DefaultParams EXCEPT !.scaler = <<"standard">>,
                                !.target_col = <<"loan_status">>]}

NoScaler == [kind |-> "none", fitted |-> FALSE, stats |-> <<>>]

NoPoly == [degree |-> 0, n_features_in |-> 0, feature_names_out |-> <<>>]

NoResult == [raised |-> NoErr, value |-> None]

NoCall == [fn |-> "none", df |-> EmptyFrame, numeric_cols |-> <<>>,
           categorical_cols |-> <<>>, degree |-> 0, done |-> FALSE,
           result |-> NoResult, twice |-> FALSE, again |-> NoResult]

NoDisk == [bronze |-> [state |-> "absent", table |-> EmptyFrame],
           out_dir |-> FALSE,
           silver |-> [state |-> "absent", table |-> EmptyFrame],
           art_dir |-> FALSE,
           scaler_joblib |-> "absent",
           poly_joblib |-> "absent",
           schema_joblib |-> "absent"]

Init ==
    /\ pc = "from_params"
    /\ params \in ParamsFiles
    /\ cfg = NoCfg
    /\ \E b \in BronzeFiles, dir \in BOOLEAN :
          disk = [NoDisk EXCEPT !.bronze = b, !.art_dir = dir]
    /\ disk0 = disk
    /\ df = EmptyFrame
    /\ X = EmptyFrame
    /\ y = <<>>
    /\ scaler = NoScaler
    /\ poly = NoPoly
    /\ err = NoErr
    /\ log = <<>>
    /\ call = NoCall

----------------------------------------------------------------------------
(* feature_engineering_cli.py: feature_engineering and run_preprocess, one   *)
(* action per statement.  An exception leaves the function: pc = "failed".   *)

Stage(name) ==
    /\ pc = name
    /\ log' = Append(log, name)

Abort(e) ==
    /\ pc' = "failed"
    /\ err' = e

\* feature_engineering: cfg = PreprocessConfig.from_params(params_path)
FromParams ==
    /\ pc = "from_params"
    /\ LET r == from_params(params)
       IN IF r.raised # NoErr
          THEN Abort(r.raised) /\ UNCHANGED cfg
          ELSE pc' = "read_bronze" /\ cfg' = r.value /\ UNCHANGED err
    /\ UNCHANGED <<disk, df, X, y, scaler, poly, params, disk0, log, call>>

\* df = read_bronze(cfg.input)
ReadBronze ==
    /\ Stage("read_bronze")
    /\ LET r == read_bronze(disk.bronze)
       IN IF r.raised # NoErr
          THEN Abort(r.raised) /\ UNCHANGED df
          ELSE pc' = "split_target" /\ df' = r.value /\ UNCHANGED err
    /\ UNCHANGED <<cfg, disk, X, y, scaler, poly, params, disk0, call>>

\* SplitTarget with the validation left out: imputation follows the split
SplitTarget_SkipsValidation ==
    /\ Stage("split_target")
    /\ LET r == split_target(df, cfg.target_col)
       IN IF r.raised # NoErr
          THEN Abort(r.raised) /\ UNCHANGED <<X, y>>
          ELSE pc' = "impute_numerics" /\ X' = r.value[1] /\ y' = r.value[2]
               /\ UNCHANGED err
    /\ UNCHANGED <<cfg, disk, df, scaler, poly, params, disk0, call>>

\* X, y = split_target(df, cfg.target_col)
SplitTarget ==
    /\ Stage("split_target")
    /\ LET r == split_target(df, cfg.target_col)
       IN IF r.raised # NoErr
          THEN Abort(r.raised) /\ UNCHANGED <<X, y>>
          ELSE pc' = "validate_columns" /\ X' = r.value[1] /\ y' = r.value[2]
               /\ UNCHANGED err
    /\ UNCHANGED <<cfg, disk, df, scaler, poly, params, disk0, call>>

\* validate_columns(X, NUMERIC_COLS, CATEGORICAL_COLS)
ValidateColumns ==
    /\ Stage("validate_columns")
    /\ LET e == validate_columns(X, NUMERIC_COLS, CATEGORICAL_COLS)
       IN IF e # NoErr
          THEN Abort(e)
          ELSE pc' = "impute_numerics" /\ UNCHANGED err
    /\ UNCHANGED <<cfg, disk, df, X, y, scaler, poly, params, disk0, call>>

\* X = impute_numerics(X, NUMERIC_COLS)
ImputeNumerics ==
    /\ Stage("impute_numerics")
    /\ LET r == impute_numerics(X, NUMERIC_COLS)
       IN IF r.raised # NoErr
          THEN Abort(r.raised) /\ UNCHANGED X
          ELSE pc' = "one_hot_encode" /\ X' = r.value /\ UNCHANGED err
    /\ UNCHANGED <<cfg, disk, df, y, scaler, poly, params, disk0, call>>

\* X = one_hot_encode(X, CATEGORICAL_COLS)
OneHotEncode ==
    /\ Stage("one_hot_encode")
    /\ LET r == one_hot_encode(X, CATEGORICAL_COLS)
       IN IF r.raised # NoErr
          THEN Abort(r.raised) /\ UNCHANGED X
          ELSE pc' = "make_scaler" /\ X' = r.value /\ UNCHANGED err
    /\ UNCHANGED <<cfg, disk, df, y, scaler, poly, params, disk0, call>>

\* scaler = make_scaler(cfg.scaler)
MakeScaler ==
    /\ Stage("make_scaler")
    /\ LET r == make_scaler(cfg.scaler)
       IN IF r.raised # NoErr
          THEN Abort(r.raised) /\ UNCHANGED scaler
          ELSE pc' = "scale_numerics" /\ scaler' = r.value /\ UNCHANGED err
    /\ UNCHANGED <<cfg, disk, df, X, y, poly, params, disk0, call>>

\* X, scaler = scale_numerics(X, NUMERIC_COLS, scaler)
ScaleNumerics ==
    /\ Stage("scale_numerics")
    /\ LET r == scale_numerics(X, NUMERIC_COLS, scaler)
       IN IF r.raised # NoErr
          THEN Abort(r.raised) /\ UNCHANGED <<X, scaler>>
          ELSE pc' = "poly_expand" /\ X' = r.value[1] /\ scaler' = r.value[2]
               /\ UNCHANGED err
    /\ UNCHANGED <<cfg, disk, df, y, poly, params, disk0, call>>

\* PolyExpand with the exception caught and the run carried on
PolyExpand_CarriesOn ==
    /\ Stage("poly_expand")
    /\ LET r == poly_expand(X, NUMERIC_COLS, cfg.poly_degree)
       IN IF r.raised # NoErr
          THEN pc' = "reattach" /\ err' = r.raised /\ UNCHANGED <<X, poly>>
          ELSE pc' = "reattach" /\ X' = r.value[1] /\ poly' = r.value[2]
               /\ UNCHANGED err
    /\ UNCHANGED <<cfg, disk, df, y, scaler, params, disk0, call>>

\* X, poly = poly_expand(X, NUMERIC_COLS, cfg.poly_degree)
PolyExpand ==
    /\ Stage("poly_expand")
    /\ LET r == poly_expand(X, NUMERIC_COLS, cfg.poly_degree)
       IN IF r.raised # NoErr
          THEN Abort(r.raised) /\ UNCHANGED <<X, poly>>
          ELSE pc' = "reattach" /\ X' = r.value[1] /\ poly' = r.value[2]
               /\ UNCHANGED err
    /\ UNCHANGED <<cfg, disk, df, y, scaler, params, disk0, call>>

\* X[cfg.target_col] = y with the target attached last row first
Reattach_Misaligned ==
    /\ Stage("reattach")
    /\ X' = SetColumn(X, cfg.target_col, [r \in 1..Len(y) |-> y[Len(y) + 1 - r]])
    /\ pc' = "write_silver"
    /\ UNCHANGED <<cfg, disk, df, y, scaler, poly, params, disk0, err, call>>

\* X[cfg.target_col] = y: y and X carry the index of the frame they were split
\* from, so the assignment aligns them row by row
Reattach ==
    /\ Stage("reattach")
    /\ X' = SetColumn(X, cfg.target_col, y)
    /\ pc' = "write_silver"
    /\ UNCHANGED <<cfg, disk, df, y, scaler, poly, params, disk0, err, call>>

\* write_silver(X, cfg.output)
WriteSilver ==
    /\ Stage("write_silver")
    /\ \E i \in DOMAIN write_silver(X, disk) :
          LET o == write_silver(X, disk)[i] IN
          /\ disk' = o[2]
          /\ IF o[1] # NoErr
             THEN Abort(o[1])
             ELSE /\ pc' = IF cfg.save_artifacts_dir # <<>>
                           THEN "mkdir_artifacts" ELSE "done"
                  /\ UNCHANGED err
    /\ UNCHANGED <<cfg, df, X, y, scaler, poly, params, disk0, call>>

\* cfg.save_artifacts_dir.mkdir(parents=True, exist_ok=True)
MkdirArtifacts ==
    /\ Stage("mkdir_artifacts")
    /\ \/ pc' = "dump_scaler" /\ disk' = [disk EXCEPT !.art_dir = TRUE]
          /\ UNCHANGED err
       \/ ~disk.art_dir /\ Abort(Raise("OSError", "mkdir_artifacts", <<>>))
          /\ UNCHANGED disk
    /\ UNCHANGED <<cfg, df, X, y, scaler, poly, params, disk0, call>>

\* joblib.dump(obj, path): the file is written, or the dump fails and leaves
\* no file or a part of one
Dump(file, next) ==
    \/ pc' = next /\ disk' = [disk EXCEPT ![file] = "written"] /\ UNCHANGED err
    \/ /\ Abort(Raise("OSError", pc, <<file>>))
       /\ \E left \in {"absent", "partial"} : disk' = [disk EXCEPT ![file] = left]

\* joblib.dump(scaler, cfg.save_artifacts_dir / "scaler.joblib")
DumpScaler ==
    /\ Stage("dump_scaler")
    /\ Dump("scaler_joblib", "dump_poly")
    /\ UNCHANGED <<cfg, df, X, y, scaler, poly, params, disk0, call>>

\* joblib.dump(poly, cfg.save_artifacts_dir / "poly.joblib")
DumpPoly ==
    /\ Stage("dump_poly")
    /\ Dump("poly_joblib", "dump_schema")
    /\ UNCHANGED <<cfg, df, X, y, scaler, poly, params, disk0, call>>

\* joblib.dump({"numeric_cols": NUMERIC_COLS}, ...); return cfg.output
DumpSchema ==
    /\ Stage("dump_schema")
    /\ Dump("schema_joblib", "done")
    /\ UNCHANGED <<cfg, df, X, y, scaler, poly, params, disk0, call>>

Next ==
    \/ FromParams
    \/ ReadBronze
    \/ SplitTarget
    \/ ValidateColumns
    \/ ImputeNumerics
    \/ OneHotEncode
    \/ MakeScaler
    \/ ScaleNumerics
    \/ PolyExpand
    \/ Reattach
    \/ WriteSilver
    \/ MkdirArtifacts
    \/ DumpScaler
    \/ DumpPoly
    \/ DumpSchema

Spec == Init /\ [][Next]_vars

----------------------------------------------------------------------------
(* The step functions called on their own: one call of one function of      *)
(* steps.py on a small table and schema, and for impute_numerics a second   *)
(* call on the table the first returned.                                    *)

ColNames == <<"age", "income", "tenure", "amount", "rate">>

\* the sequences that keep some of the entries of s, in the order of s
SubSeqs(s) ==
    {LET Kept(x) == x \in keep IN SelectSeq(s, Kept) : keep \in SUBSET Range(s)}

\* the tables of at most MaxCallRows rows whose rows are drawn from a set
TablesOf(cols, rowset) ==
    {[cols |-> cols, rows |-> rows] :
        rows \in UNION {[1..n -> rowset] : n \in 0..MaxCallRows}}

Call(fn, d, numeric_cols, categorical_cols, degree) ==
    [NoCall EXCEPT !.fn = fn, !.df = d, !.numeric_cols = numeric_cols,
                   !.categorical_cols = categorical_cols, !.degree = degree]

\* validate_columns: a table with some of the columns, a schema that declares
\* each column numeric, categorical or not at all
ValidateCalls ==
    LET names == SubSeq(ColNames, 1, MaxCols)
        schemas == {sch \in SubSeqs(names) \X SubSeqs(names) :
                      Range(sch[1]) \cap Range(sch[2]) = {}}
    IN {Call("validate_columns", [cols |-> present, rows |-> <<>>],
             sch[1], sch[2], 0) :
          present \in SubSeqs(names), sch \in schemas}

\* impute_numerics: two numeric columns, cells missing or whole
ImputeCalls ==
    {Call("impute_numerics", t, <<"age", "income">>, <<>>, 0) :
        t \in TablesOf(<<"age", "income">>,
                       {NaN, Num(2), Num(6)} \X {NaN, Num(4)})}

\* one_hot_encode: two categorical columns around a numeric one
EncodeCalls ==
    {Call("one_hot_encode", t, <<>>, cat, 0) :
        t \in TablesOf(<<"home", "age", "grade">>,
                       {NA, Cat("RENT"), Cat("OWN"), Cat("MORTGAGE")}
                         \X {Num(2)} \X {Cat("B"), Cat("A")}),
        cat \in {<<"home">>, <<"home", "grade">>, <<"grade", "home">>}}

\* a scaled cell of the whole value v
ScaledCell(v) == <<"f32", "minmax", Num(2 * v), <<Num(0), Num(8)>> >>

\* poly_expand: d scaled numeric columns after an indicator column, one row
\* or none, the first cell missing or not
PolyCalls ==
    {Call("poly_expand",
          [cols |-> <<"home_OWN">> \o SubSeq(ColNames, 1, d),
           rows |-> [r \in 1..n |->
                       <<IntCell(1)>> \o [i \in 1..d |->
                          IF i = 1 /\ missing
                          THEN <<"f32", "minmax", NaN, <<Num(0), Num(8)>> >>
                          ELSE ScaledCell(i)]]],
          SubSeq(ColNames, 1, d), <<>>, degree) :
        d \in 0..MaxCols, n \in 0..1, missing \in BOOLEAN,
        degree \in PolyDegrees}

InitCalls ==
    /\ pc = "call"
    /\ call \in ValidateCalls \cup ImputeCalls \cup EncodeCalls \cup PolyCalls
    /\ params = DefaultParams
    /\ cfg = NoCfg
    /\ disk = NoDisk
    /\ disk0 = NoDisk
    /\ df = EmptyFrame
    /\ X = EmptyFrame
    /\ y = <<>>
    /\ scaler = NoScaler
    /\ poly = NoPoly
    /\ err = NoErr
    /\ log = <<>>

Returns(fn, result) ==
    /\ pc = "call"
    /\ call.fn = fn
    /\ ~call.done
    /\ call' = [call EXCEPT !.done = TRUE, !.result = result]
    /\ UNCHANGED <<pc, cfg, disk, disk0, df, X, y, scaler, poly, params, err, log>>

CallValidate ==
    Returns("validate_columns",
            LET e == validate_columns(call.df, call.numeric_cols, call.categorical_cols)
            IN IF e = NoErr THEN Ok(None) ELSE Fail(e))

CallImpute ==
    Returns("impute_numerics", impute_numerics(call.df, call.numeric_cols))

\* the second call, on the table the first returned
CallImputeAgain ==
    /\ pc = "call"
    /\ call.fn = "impute_numerics"
    /\ call.done /\ ~call.twice
    /\ call.result.raised = NoErr
    /\ call' = [call EXCEPT !.twice = TRUE,
                            !.again = impute_numerics(call.result.value,
                                                      call.numeric_cols)]
    /\ UNCHANGED <<pc, cfg, disk, disk0, df, X, y, scaler, poly, params, err, log>>

CallEncode ==
    Returns("one_hot_encode", one_hot_encode(call.df, call.categorical_cols))

CallPoly ==
    Returns("poly_expand", poly_expand(call.df, call.numeric_cols, call.degree))

NextCalls ==
    \/ CallValidate
    \/ CallImpute
    \/ CallImputeAgain
    \/ CallEncode
    \/ CallPoly

SpecCalls == InitCalls /\ [][NextCalls]_vars

----------------------------------------------------------------------------
(* Properties of a run *)

IsPrefix(a, b) == Len(a) <= Len(b) /\ a = SubSeq(b, 1, Len(a))

Terminated == pc \in {"done", "failed"}

ArtifactsWritten ==
    /\ disk.scaler_joblib = "written"
    /\ disk.poly_joblib = "written"
    /\ disk.schema_joblib = "written"

\* the stages of a run as the pipeline contract names them
StageOrder ==
    <<"read_bronze", "split_target", "validate_columns", "impute_numerics",
      "one_hot_encode", "scale_numerics", "poly_expand", "reattach",
      "write_silver">>

StagesOf(l) == LET IsStage(n) == n \in Range(StageOrder) IN SelectSeq(l, IsStage)

\* C1: in every run the stages run at most once each and in the order read
\* Bronze, split target, validate, impute, encode, scale, expand, reattach,
\* write Silver, and no stage begins once an earlier one has raised: in every
\* step the stages begun so far are a prefix of that order, and after an
\* exception no further stage begins.
C1_StagesInFixedOrder ==
    [][/\ IsPrefix(StagesOf(log'), StageOrder)
       /\ (err # NoErr => log' = log)]_vars

\* a run that went through all nine stages
C1_Witness == pc = "done" /\ StagesOf(log) = StageOrder

\* the stages that come before the Silver write
EarlyStages ==
    {"read_bronze", "split_target", "validate_columns", "impute_numerics",
     "one_hot_encode", "make_scaler", "scale_numerics", "poly_expand"}

\* C2: when a stage before the Silver write raises, the run stops at that
\* stage with that exception, write_silver is never begun and the disk is as
\* the run found it (no Silver file).
C2_FailFastNoSilver ==
    (err # NoErr /\ err.origin \in EarlyStages) =>
        /\ pc = "failed"
        /\ log # <<>> /\ log[Len(log)] = err.origin
        /\ "write_silver" \notin Range(log)
        /\ disk.silver.state = "absent"
        /\ disk = disk0

\* a Bronze table without loan_grade: validate_columns raised, naming it
C2_Witness ==
    /\ pc = "failed"
    /\ err.origin = "validate_columns"
    /\ err.args = << <<>>, <<"loan_grade">> >>

\* C3: a run is one transaction on the disk: when it ends, either the Silver
\* file and (if an artefact directory is configured) the three artefacts are
\* written, or the disk is as the run found it.
C3_RunIsOneTransaction ==
    Terminated =>
        \/ /\ disk.silver.state = "written"
           /\ cfg.save_artifacts_dir # <<>> => ArtifactsWritten
        \/ disk = disk0

ValidScalers == {"standard", "minmax"}

\* C4: with a scaler kind other than 'standard' and 'minmax' the run fails
\* before any data is touched: no stage that reads or transforms the Bronze
\* table is ever begun.
C4_BadScalerFailsBeforeData ==
    (cfg.loaded /\ cfg.scaler \notin ValidScalers) =>
        Range(log) \cap {"read_bronze", "split_target", "validate_columns",
                         "impute_numerics", "one_hot_encode"} = {}

\* the exceptions that report an invalid configuration: a missing key
\* (from_params), an unknown scaler kind (make_scaler), a degree the
\* polynomial expansion rejects
IsConfigError(e) ==
    \/ e.origin \in {"from_params", "make_scaler"}
    \/ e.origin = "poly_expand" /\ e.args = <<"degree">>

\* C8: with poly_degree <= 0 the run fails with a configuration error and
\* makes no expanded table, no Silver file and no artefact.
C8_NonPositiveDegreeIsConfigError ==
    (cfg.loaded /\ cfg.poly_degree <= 0 /\ Terminated) =>
        /\ pc = "failed"
        /\ IsConfigError(err)
        /\ poly = NoPoly
        /\ disk = disk0

----------------------------------------------------------------------------
(* Properties of the step functions *)

Returned(fn) == call.fn = fn /\ call.done

\* the declared names that the table of the call lacks
Absent(declared) == {c \in Range(declared) : c \notin Range(call.df.cols)}

\* C5: validate_columns raises its KeyError (the schema error) exactly when a
\* declared numeric or categorical name is absent from the table, and the
\* error names every absent numeric and every absent categorical name, and
\* no other; it returns normally when none is absent.
C5_ValidateNamesAllMissing ==
    Returned("validate_columns") =>
        LET e == call.result.raised
        IN /\ e # NoErr <=>
                 Absent(call.numeric_cols) \cup Absent(call.categorical_cols) # {}
           /\ e # NoErr =>
                 /\ e.type = "KeyError"
                 /\ Len(e.args) = 2
                 /\ Range(e.args[1]) = Absent(call.numeric_cols)
                 /\ Range(e.args[2]) = Absent(call.categorical_cols)

\* a table that lacks two numeric columns and a categorical one
C5_Witness ==
    /\ Returned("validate_columns")
    /\ Cardinality(Absent(call.numeric_cols)) = 2
    /\ Cardinality(Absent(call.categorical_cols)) = 1
    /\ call.result.raised # NoErr

\* the numeric columns of the call in which every cell of the table is missing
AllMissing(d) ==
    {c \in Range(call.numeric_cols) :
        /\ Len(d.rows) > 0
        /\ \A r \in 1..Len(d.rows) : IsNaN(Cell(d, c, r))}

HasMissing(d, c) == \E r \in 1..Len(d.rows) : IsNaN(Cell(d, c, r))

\* C6: on a table with a numeric column that holds no value at all,
\* impute_numerics raises (a data quality error) rather than return a table
\* in which that column is still missing.
C6_AllMissingColumnRaises ==
    (Returned("impute_numerics") /\ AllMissing(call.df) # {}) =>
        call.result.raised # NoErr

\* C7: after one pass of impute_numerics no cell of a numeric column is
\* missing, each missing cell holds the median of the column's other cells, a
\* column with no missing cell is unchanged, and a second pass returns the
\* table of the first.
C7_ImputationIdempotent ==
    (Returned("impute_numerics") /\ call.twice) =>
        LET out == call.result.value
        IN /\ call.result.raised = NoErr
           /\ out.cols = call.df.cols
           /\ \A c \in Range(call.numeric_cols) :
                 /\ ~HasMissing(out, c)
                 /\ \A r \in 1..Len(out.rows) :
                       Cell(out, c, r) =
                          IF IsNaN(Cell(call.df, c, r))
                          THEN Median(Column(call.df, c))
                          ELSE Cell(call.df, c, r)
           /\ call.again = call.result

\* the labels a column of the table of the call holds
Observed(c) ==
    {v \in Range(CategoryOrder) :
        \E r \in 1..Len(call.df.rows) : Cell(call.df, c, r) = Cat(v)}

Rank(v) == CHOOSE i \in DOMAIN CategoryOrder : CategoryOrder[i] = v

\* the labels of a column but the first of them in lexicographic order
ButFirst(labels) == {v \in labels : \E w \in labels : Rank(w) < Rank(v)}

\* the places of the indicator columns of source column c in a table
IndicatorsOf(out, c) ==
    {i \in DOMAIN out.cols :
        \E v \in Range(CategoryOrder) : out.cols[i] = c \o "_" \o v}

\* one_hot_encode has replaced every categorical column c of the call by
\* Count(k) indicator columns, k the number of labels c holds: c is gone,
\* there is one column c_v for each label v but the first, and its cell is
\* the integer 1 in the rows where c holds v and the integer 0 elsewhere
Encoded(Count(_)) ==
    Returned("one_hot_encode") =>
        LET out == call.result.value
        IN /\ call.result.raised = NoErr
           /\ Len(out.rows) = Len(call.df.rows)
           /\ \A c \in Range(call.categorical_cols) :
                 /\ ~HasCol(out, c)
                 /\ Cardinality(IndicatorsOf(out, c)) =
                       Count(Cardinality(Observed(c)))
                 /\ {out.cols[i] : i \in IndicatorsOf(out, c)} =
                       {c \o "_" \o v : v \in ButFirst(Observed(c))}
                 /\ \A v \in ButFirst(Observed(c)), r \in 1..Len(out.rows) :
                       Cell(out, c \o "_" \o v, r) =
                          IF Cell(call.df, c, r) = Cat(v)
                          THEN IntCell(1) ELSE IntCell(0)

KMinusOne(k) == k - 1

KMinusOneOrNone(k) == IF k = 0 THEN 0 ELSE k - 1

\* C9 as stated: a categorical column with k distinct labels is replaced by
\* exactly k - 1 indicator columns, named {column}_{label}, one for each
\* label but the lexicographically first, 0/1 integers that are 1 exactly in
\* the rows that hold the label.
C9_KMinusOneIndicators == Encoded(KMinusOne)

\* C9, amended: as stated for k >= 1; a column that holds no label at all
\* (an empty table, or every cell missing) is replaced by no column.
C9_IndicatorsPerLabelButFirst == Encoded(KMinusOneOrNone)

\* a column with three labels, encoded by two indicator columns
C9_Witness ==
    /\ Returned("one_hot_encode")
    /\ \E c \in Range(call.categorical_cols) :
          /\ Cardinality(Observed(c)) = 3
          /\ Cardinality(IndicatorsOf(call.result.value, c)) = 2

RECURSIVE Binomial(_, _)
Binomial(n, k) == IF k = 0 THEN 1 ELSE (Binomial(n - 1, k - 1) * n) \div k

\* the exponent vectors of the monomials of d variables of total degree 1..n
Monomials(d, n) ==
    {e \in [1..d -> 0..n] : Sum([i \in 1..d |-> e[i]]) \in 1..n}

\* the name of the monomial with exponent vector e
RECURSIVE MonomialName(_, _, _)
MonomialName(e, cols, i) ==
    IF i > Len(cols) THEN ""
    ELSE LET rest == MonomialName(e, cols, i + 1)
             term == IF e[i] = 1 THEN cols[i] ELSE cols[i] \o "^" \o Digits[e[i]]
         IN IF e[i] = 0 THEN rest
            ELSE IF rest = "" THEN term ELSE term \o " " \o rest

\* C10: for d numeric columns and degree n >= 1 poly_expand makes exactly
\* C(d+n, n) - 1 feature columns: each monomial of total degree 1..n exactly
\* once, none of degree 0, the d numeric columns themselves first, as the
\* monomials of degree 1; each cell is the product its monomial names.
C10_AllMonomialsOnce ==
    (Returned("poly_expand") /\ call.degree >= 1 /\ call.result.raised = NoErr) =>
        LET cols == call.numeric_cols
            d == Len(cols)
            out == call.result.value[1]
            names == call.result.value[2].feature_names_out
            kept == Len(out.cols) - Len(names)
        IN /\ Len(names) = Binomial(d + call.degree, call.degree) - 1
           /\ \A i, j \in DOMAIN names : names[i] = names[j] => i = j
           /\ Range(names) =
                 {MonomialName(e, cols, 1) : e \in Monomials(d, call.degree)}
           /\ SubSeq(names, 1, d) = cols
           /\ out.cols = DropColumns(call.df, Range(cols)).cols \o names
           /\ \A e \in Monomials(d, call.degree), r \in 1..Len(out.rows) :
                 LET cell == Cell(out, MonomialName(e, cols, 1), r)
                 IN /\ cell[1] = "prod"
                    /\ \A i \in 1..d :
                          Cardinality({f \in DOMAIN cell[2] :
                              cell[2][f] = Cell(call.df, cols[i], r)}) = e[i]

\* MaxCols numeric columns expanded to degree MaxDegree
C10_Witness ==
    /\ Returned("poly_expand")
    /\ call.result.raised = NoErr
    /\ Len(call.numeric_cols) = MaxCols
    /\ call.degree = MaxDegree
    /\ Len(call.result.value[2].feature_names_out) =
          Binomial(MaxCols + MaxDegree, MaxDegree) - 1

----------------------------------------------------------------------------
(* Properties of the Silver table and of the artifacts *)

\* the Bronze cell a cell of a later frame was computed from: a scaled cell
\* holds its input, a degree-1 monomial its only factor
RECURSIVE OriginOf(_)
OriginOf(cell) ==
    IF cell[1] = "prod" THEN OriginOf(cell[2][1])
    ELSE IF cell[1] = "f32" THEN OriginOf(cell[3])
    ELSE cell

\* a column no Bronze table lacks and no row leaves empty: it tells the rows
\* apart
RowKey == "person_age"

\* frame d holds the rows of the Bronze table b, one for one and in b's order
SameRows(d, b) ==
    /\ Len(d.rows) = Len(b.rows)
    /\ HasCol(d, RowKey)
    /\ \A r \in 1..Len(b.rows) : OriginOf(Cell(d, RowKey, r)) = Cell(b, RowKey, r)

\* the integer or float cell holds the whole number n
Holds(cell, n) ==
    \/ cell = IntCell(n)
    \/ cell = Num(2 * n)

\* the target cells are, row for row, the values of b's target column
SameTarget(cells, b, target_col) ==
    /\ Len(cells) = Len(b.rows)
    /\ \A r \in 1..Len(b.rows) :
          \E n \in 0..1 : Holds(cells[r], n) /\ Holds(Cell(b, target_col, r), n)

SplitDone == "split_target" \in Range(log) /\ err.origin # "split_target"

\* C11: from the split on, the feature frame and the target keep the rows of
\* the Bronze table, as many and in the same order, through every stage; and
\* a written Silver table has the Bronze table's rows in the Bronze order with,
\* in its target column, the value the Bronze target column held for each row.
C11_RowsAndTargetPreserved ==
    /\ SplitDone =>
          /\ SameRows(X, disk.bronze.table)
          /\ SameTarget(y, disk.bronze.table, cfg.target_col)
    /\ disk.silver.state = "written" =>
          /\ SameRows(disk.silver.table, disk.bronze.table)
          /\ HasCol(disk.silver.table, cfg.target_col)
          /\ SameTarget(Column(disk.silver.table, cfg.target_col),
                        disk.bronze.table, cfg.target_col)

\* a successful run on two applicants with different loan statuses, one of
\* them with a missing value that was imputed
C11_Witness ==
    /\ pc = "done"
    /\ disk.silver.state = "written"
    /\ Len(disk.bronze.table.rows) = 2
    /\ Cell(disk.bronze.table, cfg.target_col, 1) = Num(0)
    /\ Cell(disk.bronze.table, cfg.target_col, 2) = Num(2)
    /\ Cell(disk.bronze.table, "person_emp_length", 2) = NaN
    /\ Cell(disk.silver.table, cfg.target_col, 2) = IntCell(1)

\* step 8 of run_preprocess, statement by statement
ArtifactStages == <<"mkdir_artifacts", "dump_scaler", "dump_poly", "dump_schema">>

\* the configuration names an artifact directory
Configured == cfg.loaded /\ cfg.save_artifacts_dir # <<>>

\* the run has put something, whole or not, where an artifact goes
AnyArtifact ==
    \/ disk.scaler_joblib # "absent"
    \/ disk.poly_joblib # "absent"
    \/ disk.schema_joblib # "absent"

\* an artifact is on disk only if a directory is configured and the Silver
\* table was written before it
ArtifactsOnlyAfterSilver ==
    AnyArtifact => Configured /\ disk.silver.state = "written"

\* a run that ends with a directory configured and the Silver table written
\* has written the three artifacts
ArtifactsIfSilver ==
    (Terminated /\ Configured /\ disk.silver.state = "written") => ArtifactsWritten

\* a successful run with a directory configured ends with the directory, the
\* three artifacts, and as its last steps the Silver write, the creation of
\* the directory and the dumps of scaler, poly and schema, in that order
ArtifactsInOrder ==
    (pc = "done" /\ Configured) =>
        /\ ArtifactsWritten
        /\ disk.art_dir
        /\ Len(log) > Len(ArtifactStages)
        /\ SubSeq(log, Len(log) - Len(ArtifactStages), Len(log))
              = <<"write_silver">> \o ArtifactStages

\* with no directory configured the run writes no artifact, makes no
\* directory for them and runs no statement of step 8
NothingWhenUnset ==
    ~Configured =>
        /\ ~AnyArtifact
        /\ disk.art_dir = disk0.art_dir
        /\ Range(log) \cap Range(ArtifactStages) = {}

\* C12: in every run the scaler, poly and schema artifacts are written if and
\* only if save_artifacts_dir is set and the Silver write has completed before;
\* when it is set and the run succeeds the three are written in the order
\* scaler, poly, schema after the directory is made; when it is unset no
\* artifact and no artifact directory is written.
C12_ArtifactsIffConfiguredAndSilver ==
    /\ ArtifactsOnlyAfterSilver
    /\ ArtifactsIfSilver
    /\ ArtifactsInOrder
    /\ NothingWhenUnset

====
